---- MODULE Spec2Model ----
(***************************************************************************)
(* Model of the CAPS form validation rules of caps/models.py: the clean()  *)
(* methods of CapsForm, DrugUse, PregnancyProblem, HeartDisease and        *)
(* MedicalProblem, and the choice-label lookups (the ..._string methods).   *)
(*                                                                         *)
(* Python values whose dynamic type matters (a nullable field, a choice    *)
(* key that is an int in one row and a unicode string in the next) are     *)
(* records [tag, val]; BooleanFields are TLA+ booleans.                    *)
(***************************************************************************)
EXTENDS Integers, Sequences, FiniteSets, TLC

VARIABLES case, previous_pregnancy_history, last

vars == <<case, previous_pregnancy_history, last>>

-----------------------------------------------------------------------------
(* Bounds of the model.                                                    *)

\* longest occupation text drawn for a Case
MaxOccupationLen == 1
\* largest value drawn for gravidity_24plus and gravidity_24minus
MaxGravidity == 1
\* largest number of PregnancyProblem rows stored for the Case
MaxChildren == 1

-----------------------------------------------------------------------------
(* Python values.                                                          *)

PyNone == [tag |-> "NoneType", val |-> "None"]
PyStr(s) == [tag |-> "str", val |-> s]
PyInt(n) == [tag |-> "int", val |-> n]
PyBool(b) == [tag |-> "bool", val |-> b]
PyDate(d) == [tag |-> "date", val |-> d]
PyTuple(t) == [tag |-> "tuple", val |-> t]

IsNone(v) == v.tag = "NoneType"

IsNumber(v) == v.tag \in {"int", "bool"}

\* bool is a subclass of int: True == 1 and False == 0
NumVal(v) == IF v.tag = "bool" THEN (IF v.val THEN 1 ELSE 0) ELSE v.val

\* Python's ==, between values of any two types
PyEq(a, b) ==
    IF IsNumber(a) /\ IsNumber(b) THEN NumVal(a) = NumVal(b)
    ELSE IF a.tag # b.tag THEN FALSE
    ELSE a.val = b.val

\* Python's truth value of an object, as `if x` and `x and y` test it
Truthy(v) ==
    CASE v.tag = "NoneType" -> FALSE
      [] v.tag = "bool" -> v.val
      [] v.tag = "int" -> v.val # 0
      [] v.tag = "str" -> Len(v.val) > 0
      [] OTHER -> TRUE

-----------------------------------------------------------------------------
(* Outcome of a call: the object it may have changed, the exception it     *)
(* raised (if any) with its message, and the value it returned.            *)

NoException == "None"
ValidationError == "ValidationError"
TypeError == "TypeError"

Returned(obj, ret) == [self |-> obj, exc |-> NoException, msg |-> "", ret |-> ret]
Raised(obj, exc, msg) == [self |-> obj, exc |-> exc, msg |-> msg, ret |-> PyNone]

MSG_OCCUPATION == "Section 1: Please enter occupation details for the woman"
MSG_NO_PREGNANCIES == "\n                Section 2: No previous pregnancies have been entered. Please correct the number of previous pregnancies.\n                "
MSG_MORE_INFORMATION == "Section 2: Please enter more information about previous pregnancy problems."
MSG_INDICATE == "Section 2: Please indicate whether there were any previous pregnancy problems"
MSG_CARDIAC_DATE == "Section 3: Please enter the date of the most recent cardiac arrest"
MSG_DRUG_DATE == "Section 3: Please specify a date for this drug use, or tick the box to say the timing is unknown"
\* what len(None) raises
MSG_LEN_NONE == "object of type 'NoneType' has no len()"

-----------------------------------------------------------------------------
(* CapsForm.clean                                                          *)

\* mutant: the employed test is left out of the condition
CheckEmployment_IgnoresEmployed(self) ==
    IF IsNone(self.occupation) THEN Raised(self, TypeError, MSG_LEN_NONE)
    ELSE IF Len(self.occupation.val) < 1 THEN Raised(self, ValidationError, MSG_OCCUPATION)
    ELSE Returned(self, PyNone)

\* if self.employed and len(self.occupation) < 1: raise ...
CheckEmployment(self) ==
    IF ~self.employed THEN Returned(self, PyNone)
    ELSE IF IsNone(self.occupation) THEN Raised(self, TypeError, MSG_LEN_NONE)
    ELSE IF Len(self.occupation.val) < 1 THEN Raised(self, ValidationError, MSG_OCCUPATION)
    ELSE Returned(self, PyNone)

\* if (gravidity_24minus > 0 or gravidity_24plus > 0) and
\* previous_pregnancy_problem == "": raise ...
RemindToAnswer(s) ==
    IF (s.gravidity_24minus > 0 \/ s.gravidity_24plus > 0)
       /\ PyEq(s.previous_pregnancy_problem, PyStr(""))
    THEN Raised(s, ValidationError, MSG_INDICATE)
    ELSE Returned(s, PyNone)

\* mutant: the auto-correction of previous_pregnancy_problem is left out
CheckPregnancyHistory_NoCorrection(self, count) ==
    LET no_pregnancies == self.gravidity_24minus = 0 /\ self.gravidity_24plus = 0
    IN  IF count > 0
        THEN IF no_pregnancies
             THEN Raised(self, ValidationError, MSG_NO_PREGNANCIES)
             ELSE RemindToAnswer(self)
        ELSE IF Truthy(self.previous_pregnancy_problem)
        THEN IF count = 0
             THEN Raised(self, ValidationError, MSG_MORE_INFORMATION)
             ELSE RemindToAnswer(self)
        ELSE RemindToAnswer(self)

\* mutant: in the elif branch the gravidity test comes before the count test
CheckPregnancyHistory_GravidityFirst(self, count) ==
    LET corrected == [self EXCEPT !.previous_pregnancy_problem = PyBool(TRUE)]
        no_pregnancies == self.gravidity_24minus = 0 /\ self.gravidity_24plus = 0
    IN  IF count > 0
        THEN IF no_pregnancies
             THEN Raised(corrected, ValidationError, MSG_NO_PREGNANCIES)
             ELSE RemindToAnswer(corrected)
        ELSE IF Truthy(self.previous_pregnancy_problem)
        THEN IF no_pregnancies
             THEN Raised(self, ValidationError, MSG_NO_PREGNANCIES)
             ELSE IF count = 0
             THEN Raised(self, ValidationError, MSG_MORE_INFORMATION)
             ELSE RemindToAnswer(self)
        ELSE RemindToAnswer(self)

\* mutant: with rows and no pregnancy, the raise comes before the assignment
CheckPregnancyHistory_TestBeforeCorrection(self, count) ==
    LET corrected == [self EXCEPT !.previous_pregnancy_problem = PyBool(TRUE)]
        no_pregnancies == self.gravidity_24minus = 0 /\ self.gravidity_24plus = 0
    IN  IF count > 0
        THEN IF no_pregnancies
             THEN Raised(self, ValidationError, MSG_NO_PREGNANCIES)
             ELSE RemindToAnswer(corrected)
        ELSE IF Truthy(self.previous_pregnancy_problem)
        THEN IF count = 0
             THEN Raised(self, ValidationError, MSG_MORE_INFORMATION)
             ELSE IF no_pregnancies
             THEN Raised(self, ValidationError, MSG_NO_PREGNANCIES)
             ELSE RemindToAnswer(self)
        ELSE RemindToAnswer(self)

\* Section 2: the if/elif on the PregnancyProblem rows, then the reminder;
\* count is self.previous_pregnancy_history.count()
CheckPregnancyHistory(self, count) ==
    LET corrected == [self EXCEPT !.previous_pregnancy_problem = PyBool(TRUE)]
        no_pregnancies == self.gravidity_24minus = 0 /\ self.gravidity_24plus = 0
    IN  IF count > 0
        THEN IF no_pregnancies
             THEN Raised(corrected, ValidationError, MSG_NO_PREGNANCIES)
             ELSE RemindToAnswer(corrected)
        ELSE IF Truthy(self.previous_pregnancy_problem)
        THEN IF count = 0
             THEN Raised(self, ValidationError, MSG_MORE_INFORMATION)
             ELSE IF no_pregnancies
             THEN Raised(self, ValidationError, MSG_NO_PREGNANCIES)
             ELSE RemindToAnswer(self)
        ELSE RemindToAnswer(self)

\* mutant: the auto-correction of cardiac_arrest is left out
CheckCardiacArrest_NoCorrection(self) ==
    IF self.cardiac_arrest /\ PyEq(self.cardiac_arrest_date, PyNone)
    THEN Raised(self, ValidationError, MSG_CARDIAC_DATE)
    ELSE Returned(self, PyNone)

\* mutant: the date test of the first condition is inverted (!= for ==)
CheckCardiacArrest_InvertedDateTest(self) ==
    IF self.cardiac_arrest /\ ~PyEq(self.cardiac_arrest_date, PyNone)
    THEN Raised(self, ValidationError, MSG_CARDIAC_DATE)
    ELSE IF ~self.cardiac_arrest /\ ~PyEq(self.cardiac_arrest_date, PyNone)
    THEN Returned([self EXCEPT !.cardiac_arrest = TRUE], PyNone)
    ELSE Returned(self, PyNone)

\* mutant: a flag without a date is "corrected" to false instead of rejected
CheckCardiacArrest_ClearsFlag(self) ==
    IF self.cardiac_arrest /\ PyEq(self.cardiac_arrest_date, PyNone)
    THEN Returned([self EXCEPT !.cardiac_arrest = FALSE], PyNone)
    ELSE IF ~self.cardiac_arrest /\ ~PyEq(self.cardiac_arrest_date, PyNone)
    THEN Returned([self EXCEPT !.cardiac_arrest = TRUE], PyNone)
    ELSE Returned(self, PyNone)

\* Section 3: the date is required with the flag; the flag follows the date
CheckCardiacArrest(self) ==
    IF self.cardiac_arrest /\ PyEq(self.cardiac_arrest_date, PyNone)
    THEN Raised(self, ValidationError, MSG_CARDIAC_DATE)
    ELSE IF ~self.cardiac_arrest /\ ~PyEq(self.cardiac_arrest_date, PyNone)
    THEN Returned([self EXCEPT !.cardiac_arrest = TRUE], PyNone)
    ELSE Returned(self, PyNone)

\* the three blocks in order; the first raise ends the call
CapsForm_clean(self, count) ==
    LET s1 == CheckEmployment(self)
    IN  IF s1.exc # NoException THEN s1
        ELSE LET s2 == CheckPregnancyHistory(s1.self, count)
             IN  IF s2.exc # NoException THEN s2
                 ELSE CheckCardiacArrest(s2.self)

-----------------------------------------------------------------------------
(* clean() of the child records. `parent` is the CapsForm object the       *)
(* child's foreign key (form, person) refers to; the outcome's self is     *)
(* that object after the call.                                             *)

\* mutant: `or` for `and` in the condition
DrugUse_clean_Or(self, parent) ==
    IF IsNone(self.last_use) \/ ~self.last_use_unknown
    THEN Raised(parent, ValidationError, MSG_DRUG_DATE)
    ELSE IF ~IsNone(self.drug)
    THEN Returned([parent EXCEPT !.drug_use = TRUE], PyNone)
    ELSE Returned(parent, PyNone)

\* mutant: the flag is set before the timing is tested
DrugUse_clean_FlagFirst(self, parent) ==
    LET flagged == IF ~IsNone(self.drug) THEN [parent EXCEPT !.drug_use = TRUE] ELSE parent
    IN  IF IsNone(self.last_use) /\ ~self.last_use_unknown
        THEN Raised(flagged, ValidationError, MSG_DRUG_DATE)
        ELSE Returned(flagged, PyNone)

DrugUse_clean(self, parent) ==
    IF IsNone(self.last_use) /\ ~self.last_use_unknown
    THEN Raised(parent, ValidationError, MSG_DRUG_DATE)
    ELSE IF ~IsNone(self.drug)
    THEN Returned([parent EXCEPT !.drug_use = TRUE], PyNone)
    ELSE Returned(parent, PyNone)

PregnancyProblem_clean(self, parent) ==
    IF ~IsNone(self.type)
    THEN Returned([parent EXCEPT !.previous_pregnancy_problem = PyBool(TRUE)], PyNone)
    ELSE Returned(parent, PyNone)

\* mutant: the flag of MedicalProblem.clean is set (a copied line)
HeartDisease_clean_WrongFlag(self, parent) ==
    IF ~IsNone(self.type)
    THEN Returned([parent EXCEPT !.previous_medical_problem = TRUE], PyNone)
    ELSE Returned(parent, PyNone)

HeartDisease_clean(self, parent) ==
    IF ~IsNone(self.type)
    THEN Returned([parent EXCEPT !.heart_disease = TRUE], PyNone)
    ELSE Returned(parent, PyNone)

MedicalProblem_clean(self, parent) ==
    IF ~IsNone(self.type)
    THEN Returned([parent EXCEPT !.previous_medical_problem = TRUE], PyNone)
    ELSE Returned(parent, PyNone)

-----------------------------------------------------------------------------
(* The choice lists, as the tuples of (key, value) pairs the source writes. *)
(* ETHNIC_ORIGIN_CHOICES is grouped: five of its six rows pair a group     *)
(* name with the tuple of that group's (code, label) pairs.                *)

ETHNIC_ORIGIN_CHOICES ==
    <<
        <<PyStr("White"), PyTuple(<<<<PyInt(1), PyStr("British")>>,
             <<PyInt(2), PyStr("Irish")>>,
             <<PyInt(3), PyStr("Any Other White Background")>>>>)>>,
        <<PyStr("Mixed"), PyTuple(<<<<PyInt(4), PyStr("White & Black Caribbean")>>,
             <<PyInt(5), PyStr("White & Black African")>>,
             <<PyInt(6), PyStr("White & Asian")>>,
             <<PyInt(7), PyStr("Any Other Mixed Background")>>>>)>>,
        <<PyStr("Asian or Asian British"), PyTuple(<<<<PyInt(8), PyStr("Indian")>>,
             <<PyInt(9), PyStr("Pakistani")>>,
             <<PyInt(10), PyStr("Bangladeshi")>>,
             <<PyInt(11), PyStr("Any Other Asian Background")>>>>)>>,
        <<PyStr("Black or Black British"), PyTuple(<<<<PyInt(12), PyStr("Caribbean")>>,
             <<PyInt(13), PyStr("African")>>,
             <<PyInt(14), PyStr("Any Other Black Background")>>>>)>>,
        <<PyStr("Chinese or Other Ethic Group"), PyTuple(<<<<PyInt(15), PyStr("Chinese")>>,
             <<PyInt(16), PyStr("Any Other Ethnic Group")>>>>)>>,
        <<PyInt(0), PyStr("Unknown")>>
    >>

MARTIAL_STATUS_CHOICES ==
    <<
        <<PyStr("single"), PyStr("Single")>>,
        <<PyStr("married"), PyStr("Married")>>,
        <<PyStr("cohabiting"), PyStr("Cohabiting")>>
    >>

SMOKING_CHOICES ==
    <<
        <<PyStr("never"), PyStr("Never")>>,
        <<PyStr("prior"), PyStr("Gave up prior to pregnancy")>>,
        <<PyStr("during"), PyStr("Gave up during pregnancy")>>,
        <<PyStr("current"), PyStr("Current")>>
    >>

PregnancyProblem_TYPE_CHOICES ==
    <<
        <<PyStr("throm"), PyStr("Thrombotic event")>>,
        <<PyStr("afe"), PyStr("Amniotic fluid embolism")>>,
        <<PyStr("eclampsia"), PyStr("Eclampsia")>>,
        <<PyStr("miscar3plus"), PyStr("3 or more miscarriages")>>,
        <<PyStr("premormtril"), PyStr("Preterm birth or mid trimester loss")>>,
        <<PyStr("neodeath"), PyStr("Neonatal death")>>,
        <<PyStr("stillbirth"), PyStr("Stillbirth")>>,
        <<PyStr("majcongab"), PyStr("Baby with a major congenital abnormality")>>,
        <<PyStr("sga"), PyStr("Small for gestational age (SGA) infant")>>,
        <<PyStr("lga"), PyStr("Large for gestational age (LGA) infant")>>,
        <<PyStr("infinstcare"), PyStr("Infant requiring intensive care")>>,
        <<PyStr("puerpysco"), PyStr("Puerperal psychosis")>>,
        <<PyStr("placentpreav"), PyStr("Placenta praevia")>>,
        <<PyStr("gestdiab"), PyStr("Gestational diabetes")>>,
        <<PyStr("placentabrupt"), PyStr("Significant placental abruption")>>,
        <<PyStr("postparthaemor"), PyStr("Post-partum haemorrhage requiring transfusion")>>,
        <<PyStr("surgpreg"), PyStr("Surgical procedure in pregnancy")>>,
        <<PyStr("hyperemadmit"), PyStr("Hyperemesis requiring admission")>>,
        <<PyStr("dehydrateadmin"), PyStr("Dehydration requiring admission")>>,
        <<PyStr("ovhypersynd"), PyStr("Ovarian hyperstimulation syndrome")>>,
        <<PyStr("sevinfect"), PyStr("Severe infection e.g. pyelonephritis")>>,
        <<PyStr("other"), PyStr("Other")>>
    >>

HeartDisease_TYPE_CHOICES ==
    <<
        <<PyStr("knowichheartdis"), PyStr("Known ischaemic heart disease")>>,
        <<PyStr("congheartdis"), PyStr("Congenital heart disease")>>,
        <<PyStr("prevcardsurg"), PyStr("Previous cardiac surgery")>>,
        <<PyStr("prevmyoinfarc"), PyStr("Previous myocardial infarction")>>,
        <<PyStr("cardiomypathy"), PyStr("Cardiomyopathy")>>,
        <<PyStr("prespermpacemaker"), PyStr("Presence of Permanent Pacemaker")>>,
        <<PyStr("knowreductventfunc"), PyStr("Known reduction in ventricular function")>>,
        <<PyStr("lowlevhdlchol"), PyStr("Low levels of HDL cholesterol")>>,
        <<PyStr("highlevldlchol"), PyStr("High levels of LDL cholesterol")>>,
        <<PyStr("cocaineuse"), PyStr("Cocaine use")>>,
        <<PyStr("vavheartdis"), PyStr("Valvular heart disease")>>,
        <<PyStr("vasculitis"), PyStr("Vasculitis")>>,
        <<PyStr("ischheartdisfirstdegrel"), PyStr("Ischaemic heart disease in first degree relative")>>,
        <<PyStr("diabetes"), PyStr("Diabetes")>>,
        <<PyStr("bromcripcarbelinuse"), PyStr("Bromocriptine/cabergoline use")>>,
        <<PyStr("famhistsudcarddeath"), PyStr("Family history of sudden cardiac death")>>,
        <<PyStr("histarrythimia"), PyStr("History of arrhythmia")>>,
        <<PyStr("persfamhisthyperobstcardmyp"), PyStr("Personal or family history of hypertrophic obstructive cardiomyopathy (HOCM)")>>,
        <<PyStr("famhistinharry"), PyStr("Family history of inherited arrhythmia e.g. long QT syndrome Marfan syndrome")>>,
        <<PyStr("turnersynd"), PyStr("Turner's Syndrome")>>,
        <<PyStr("other"), PyStr("Other")>>
    >>

MedicalProblem_TYPE_CHOICES ==
    <<
        <<PyStr("carddiscongoracq"), PyStr("Cardiac disease (congenital or acquired")>>,
        <<PyStr("renaldisease"), PyStr("Renal disease")>>,
        <<PyStr("endodisord"), PyStr("Endocrine disorders e.g. hypo or hyperthyroidism Psychiatric disorders")>>,
        <<PyStr("haemdisord"), PyStr("Haematological disorders e.g. sickle cell disease, diagnosed thrombophilia")>>,
        <<PyStr("inflamdisord"), PyStr("Inflammatory disorders e.g. inflammatory bowel disease Autoimmune diseases")>>,
        <<PyStr("cancer"), PyStr("Cancer")>>,
        <<PyStr("hiv"), PyStr("HIV")>>,
        <<PyStr("respdisease"), PyStr("Respiratory disease e.g. severe asthma, COPD")>>,
        <<PyStr("other"), PyStr("Other")>>
    >>

-----------------------------------------------------------------------------
(* The label lookups: for k,v in CHOICES: if k == key: return v; then ''.  *)

RECURSIVE ForChoices(_, _, _)
ForChoices(choices, key, i) ==
    IF i > Len(choices) THEN PyStr("")
    ELSE IF PyEq(choices[i][1], key) THEN choices[i][2]
    ELSE ForChoices(choices, key, i + 1)

ethnic_group_string(self) ==
    Returned(self, ForChoices(ETHNIC_ORIGIN_CHOICES, self.ethnic_group, 1))

marital_status_string(self) ==
    Returned(self, ForChoices(MARTIAL_STATUS_CHOICES, self.marital_status, 1))

smoking_string(self) ==
    Returned(self, ForChoices(SMOKING_CHOICES, self.smoking, 1))

PregnancyProblem_type_string(self) ==
    Returned(self, ForChoices(PregnancyProblem_TYPE_CHOICES, self.type, 1))

HeartDisease_type_string(self) ==
    Returned(self, ForChoices(HeartDisease_TYPE_CHOICES, self.type, 1))

MedicalProblem_type_string(self) ==
    Returned(self, ForChoices(MedicalProblem_TYPE_CHOICES, self.type, 1))

-----------------------------------------------------------------------------
(* The values drawn for the fields.                                        *)

RECURSIVE Text(_)
Text(n) == IF n = 0 THEN "" ELSE Text(n - 1) \o "a"

\* occupation = TextField(blank=True, null=True): absent, empty or some text
Occupations == {PyNone} \cup {PyStr(Text(n)) : n \in 0..MaxOccupationLen}

\* previous_pregnancy_problem = NullBooleanField: Yes, No, not answered (None);
\* and the raw empty string, which full_clean() leaves as it is on a blank field
PregnancyProblemAnswers == {PyBool(TRUE), PyBool(FALSE), PyNone, PyStr("")}

\* cardiac_arrest_date = DateField(blank=True, null=True)
ArrestDates == {PyNone, PyDate("2020-01-01")}

\* a Case with every field the clean() methods and the lookups read or write
CaseRecords(ethnic, marital, smoking) ==
    [employed : BOOLEAN,
     occupation : Occupations,
     gravidity_24plus : 0..MaxGravidity,
     gravidity_24minus : 0..MaxGravidity,
     previous_pregnancy_problem : PregnancyProblemAnswers,
     heart_disease : BOOLEAN,
     cardiac_arrest : BOOLEAN,
     cardiac_arrest_date : ArrestDates,
     drug_use : BOOLEAN,
     previous_medical_problem : BOOLEAN,
     ethnic_group : ethnic,
     marital_status : marital,
     smoking : smoking]

\* the keys of a flat choice list
Keys(choices) == {choices[i][1] : i \in 1..Len(choices)}

\* a code that is in no choice list
UnlistedCode == PyStr("zzz")

\* type of a child row whose clean() runs: not set, or a code
ChildTypes == {PyNone, PyStr("other")}

\* a DrugUse row: drug is a required foreign key, so it refers to a Drug
DrugUses ==
    [drug : {PyInt(1)},
     last_use : {PyNone, PyDate("2020-01-01 10:00")},
     last_use_unknown : BOOLEAN]

-----------------------------------------------------------------------------
(* The state: the CapsForm object being edited, the number of its stored   *)
(* PregnancyProblem rows (what previous_pregnancy_history.count() gives),  *)
(* and a record of the last call: the Case before it, the child it was     *)
(* called on, what it raised and what it returned.                         *)

Call(op, pre, child, out) ==
    [op |-> op, pre |-> pre, child |-> child,
     exc |-> out.exc, msg |-> out.msg, ret |-> out.ret]

NoCall(c) == Call("none", c, PyNone, Returned(c, PyNone))

Init ==
    /\ case \in CaseRecords({PyInt(1)}, {PyStr("single")}, {PyStr("never")})
    /\ previous_pregnancy_history \in 0..MaxChildren
    /\ last = NoCall(case)

\* CapsForm.clean() on the Case
ValidateCase ==
    LET out == CapsForm_clean(case, previous_pregnancy_history)
    IN  /\ case' = out.self
        /\ last' = Call("CapsForm.clean", case, PyNone, out)
        /\ UNCHANGED previous_pregnancy_history

\* DrugUse.clean() on a drug-use row of the Case
ValidateDrugUse ==
    \E child \in DrugUses :
        LET out == DrugUse_clean(child, case)
        IN  /\ case' = out.self
            /\ last' = Call("DrugUse.clean", case, child, out)
            /\ UNCHANGED previous_pregnancy_history

\* PregnancyProblem.clean() on a pregnancy-problem row of the Case
ValidatePregnancyProblem ==
    \E t \in ChildTypes :
        LET child == [type |-> t]
            out == PregnancyProblem_clean(child, case)
        IN  /\ case' = out.self
            /\ last' = Call("PregnancyProblem.clean", case, child, out)
            /\ UNCHANGED previous_pregnancy_history

\* HeartDisease.clean() on a heart-disease row of the Case
ValidateHeartDisease ==
    \E t \in ChildTypes :
        LET child == [type |-> t]
            out == HeartDisease_clean(child, case)
        IN  /\ case' = out.self
            /\ last' = Call("HeartDisease.clean", case, child, out)
            /\ UNCHANGED previous_pregnancy_history

\* MedicalProblem.clean() on a medical-problem row of the Case
ValidateMedicalProblem ==
    \E t \in ChildTypes :
        LET child == [type |-> t]
            out == MedicalProblem_clean(child, case)
        IN  /\ case' = out.self
            /\ last' = Call("MedicalProblem.clean", case, child, out)
            /\ UNCHANGED previous_pregnancy_history

\* a PregnancyProblem row is saved through the inline
AddPregnancyProblem ==
    /\ previous_pregnancy_history < MaxChildren
    /\ previous_pregnancy_history' = previous_pregnancy_history + 1
    /\ last' = NoCall(case)
    /\ UNCHANGED case

\* a PregnancyProblem row is deleted through the inline
DeletePregnancyProblem ==
    /\ previous_pregnancy_history > 0
    /\ previous_pregnancy_history' = previous_pregnancy_history - 1
    /\ last' = NoCall(case)
    /\ UNCHANGED case

Next ==
    \/ ValidateCase
    \/ ValidateDrugUse
    \/ ValidatePregnancyProblem
    \/ ValidateHeartDisease
    \/ ValidateMedicalProblem
    \/ AddPregnancyProblem
    \/ DeletePregnancyProblem

Spec == Init /\ [][Next]_vars

-----------------------------------------------------------------------------
(* The label lookups, on every code of each list and on unlisted ones.     *)

EthnicCodes == {PyInt(n) : n \in 0..16} \cup {PyInt(99)}
MaritalCodes == Keys(MARTIAL_STATUS_CHOICES) \cup {UnlistedCode}
SmokingCodes == Keys(SMOKING_CHOICES) \cup {UnlistedCode}

LookupCases ==
    {c \in CaseRecords(EthnicCodes, MaritalCodes, SmokingCodes) :
        /\ ~c.employed /\ c.occupation = PyStr("")
        /\ c.gravidity_24plus = 0 /\ c.gravidity_24minus = 0
        /\ c.previous_pregnancy_problem = PyNone
        /\ ~c.heart_disease /\ ~c.cardiac_arrest /\ c.cardiac_arrest_date = PyNone
        /\ ~c.drug_use /\ ~c.previous_medical_problem}

InitLookup ==
    /\ case \in LookupCases
    /\ previous_pregnancy_history = 0
    /\ last = NoCall(case)

EthnicGroupString ==
    /\ last' = Call("CapsForm.ethnic_group_string", case, PyNone, ethnic_group_string(case))
    /\ UNCHANGED <<case, previous_pregnancy_history>>

MaritalStatusString ==
    /\ last' = Call("CapsForm.marital_status_string", case, PyNone, marital_status_string(case))
    /\ UNCHANGED <<case, previous_pregnancy_history>>

SmokingString ==
    /\ last' = Call("CapsForm.smoking_string", case, PyNone, smoking_string(case))
    /\ UNCHANGED <<case, previous_pregnancy_history>>

PregnancyProblemTypeString ==
    \E t \in Keys(PregnancyProblem_TYPE_CHOICES) \cup {UnlistedCode, PyNone} :
        LET child == [type |-> t]
        IN  /\ last' = Call("PregnancyProblem.type_string", case, child,
                            PregnancyProblem_type_string(child))
            /\ UNCHANGED <<case, previous_pregnancy_history>>

HeartDiseaseTypeString ==
    \E t \in Keys(HeartDisease_TYPE_CHOICES) \cup {UnlistedCode, PyNone} :
        LET child == [type |-> t]
        IN  /\ last' = Call("HeartDisease.type_string", case, child,
                            HeartDisease_type_string(child))
            /\ UNCHANGED <<case, previous_pregnancy_history>>

MedicalProblemTypeString ==
    \E t \in Keys(MedicalProblem_TYPE_CHOICES) \cup {UnlistedCode, PyNone} :
        LET child == [type |-> t]
        IN  /\ last' = Call("MedicalProblem.type_string", case, child,
                            MedicalProblem_type_string(child))
            /\ UNCHANGED <<case, previous_pregnancy_history>>

NextLookup ==
    \/ EthnicGroupString
    \/ MaritalStatusString
    \/ SmokingString
    \/ PregnancyProblemTypeString
    \/ HeartDiseaseTypeString
    \/ MedicalProblemTypeString

SpecLookup == InitLookup /\ [][NextLookup]_vars

-----------------------------------------------------------------------------
(* Vocabulary of the properties.                                           *)

CaseCleaned == last.op = "CapsForm.clean"

\* the call did not return: it raised
Failed == last.exc # NoException

Section1Errors == {MSG_OCCUPATION}
Section2Errors == {MSG_NO_PREGNANCIES, MSG_MORE_INFORMATION, MSG_INDICATE}
Section3Errors == {MSG_CARDIAC_DATE}

Reports(errors) == last.exc = ValidationError /\ last.msg \in errors

\* employed=false, or an occupation text that is not empty
EmploymentCheckPasses(c) ==
    ~c.employed \/ (c.occupation.tag = "str" /\ Len(c.occupation.val) > 0)

NoPregnancies(c) == c.gravidity_24plus = 0 /\ c.gravidity_24minus = 0

Yes == PyBool(TRUE)

-----------------------------------------------------------------------------
\* C1: validate_case reports the Section 1 error exactly for a Case with
\* employed=true and an empty occupation text; with employed=false or a
\* non-empty occupation no Section 1 error is reported.
C1_OccupationRequiredWhenEmployed ==
    CaseCleaned =>
        (Reports(Section1Errors)
            <=> (last.pre.employed /\ last.pre.occupation = PyStr("")))

C1_Witness ==
    /\ CaseCleaned
    /\ last.pre.employed /\ last.pre.occupation = PyStr("")
    /\ Reports(Section1Errors)

\* C2 as stated: with at least one PregnancyProblem row, whatever the other
\* fields, previous_pregnancy_problem is true after validate_case, and
\* validate_case fails when both gravidity counts are 0. (Stated on the Cases
\* whose occupation is a text, where clean() ends without a TypeError.)
C2_AsStated ==
    (CaseCleaned /\ previous_pregnancy_history > 0 /\ ~IsNone(last.pre.occupation)) =>
        /\ case.previous_pregnancy_problem = Yes
        /\ NoPregnancies(last.pre) => Failed

\* C2 amended: with at least one PregnancyProblem row, previous_pregnancy_problem
\* is true after validate_case when the employment check passes and is left
\* as it was when that check stops the validation; validate_case fails when
\* both gravidity counts are 0, whatever the other fields.
C2_FlagSetOncePastEmploymentCheck ==
    (CaseCleaned /\ previous_pregnancy_history > 0) =>
        /\ IF EmploymentCheckPasses(last.pre)
           THEN case.previous_pregnancy_problem = Yes
           ELSE case.previous_pregnancy_problem = last.pre.previous_pregnancy_problem
        /\ NoPregnancies(last.pre) => Failed

C2_Witness ==
    /\ CaseCleaned /\ previous_pregnancy_history > 0
    /\ last.pre.previous_pregnancy_problem = PyBool(FALSE)
    /\ case.previous_pregnancy_problem = Yes
    /\ NoPregnancies(last.pre) /\ Reports({MSG_NO_PREGNANCIES})

\* C3: a Case with previous_pregnancy_problem=true and no PregnancyProblem row
\* fails validate_case; when the employment check passes, the failure is the
\* Section 2 "Please enter more information" error, also with both gravidity
\* counts 0.
C3_ProblemWithoutRowsRejected ==
    (CaseCleaned /\ last.pre.previous_pregnancy_problem = Yes
        /\ previous_pregnancy_history = 0) =>
        /\ Failed
        /\ EmploymentCheckPasses(last.pre) => Reports({MSG_MORE_INFORMATION})

C3_Witness ==
    /\ CaseCleaned /\ last.pre.previous_pregnancy_problem = Yes
    /\ previous_pregnancy_history = 0
    /\ NoPregnancies(last.pre)
    /\ Reports({MSG_MORE_INFORMATION})

\* C4: a Case with gravidity_24plus > 0 or gravidity_24minus > 0 whose
\* previous_pregnancy_problem is not answered (None) fails validate_case.
\* (Stated on the Cases without PregnancyProblem rows, where no
\* auto-correction answers the question.)
C4_UnansweredRejected ==
    (CaseCleaned /\ ~NoPregnancies(last.pre)
        /\ last.pre.previous_pregnancy_problem = PyNone
        /\ previous_pregnancy_history = 0) => Failed

\* C5 as stated: with cardiac_arrest_date set and cardiac_arrest=false before
\* validate_case, whatever the other fields, cardiac_arrest is true after it
\* and the cardiac-arrest check reports no failure. (Stated on the Cases
\* whose occupation is a text, where clean() ends without a TypeError.)
C5_AsStated ==
    (CaseCleaned /\ ~IsNone(last.pre.cardiac_arrest_date) /\ ~last.pre.cardiac_arrest
        /\ ~IsNone(last.pre.occupation)) =>
        /\ case.cardiac_arrest
        /\ ~Reports(Section3Errors)

\* C5 amended: with cardiac_arrest_date set and cardiac_arrest=false before
\* validate_case, the cardiac-arrest check reports no failure, and
\* cardiac_arrest is true afterwards exactly when validate_case returns; when
\* the Section 1 or Section 2 check stops the validation first, cardiac_arrest
\* is still false.
C5_ArrestFlagCorrectedWhenReached ==
    (CaseCleaned /\ ~IsNone(last.pre.cardiac_arrest_date) /\ ~last.pre.cardiac_arrest) =>
        /\ ~Reports(Section3Errors)
        /\ case.cardiac_arrest <=> ~Failed
        /\ Failed => \/ Reports(Section1Errors \cup Section2Errors)
                     \/ ~EmploymentCheckPasses(last.pre)

C5_Witness ==
    /\ CaseCleaned
    /\ ~IsNone(last.pre.cardiac_arrest_date) /\ ~last.pre.cardiac_arrest
    /\ case.cardiac_arrest /\ ~Failed

\* C6: a Case with cardiac_arrest=true and no cardiac_arrest_date fails
\* validate_case, and both fields are left as they were.
C6_ArrestWithoutDateRejected ==
    (CaseCleaned /\ last.pre.cardiac_arrest /\ IsNone(last.pre.cardiac_arrest_date)) =>
        /\ Failed
        /\ case.cardiac_arrest = last.pre.cardiac_arrest
        /\ case.cardiac_arrest_date = last.pre.cardiac_arrest_date

C6_Witness ==
    /\ CaseCleaned
    /\ last.pre.cardiac_arrest /\ IsNone(last.pre.cardiac_arrest_date)
    /\ Reports(Section3Errors)
    /\ case.cardiac_arrest /\ IsNone(case.cardiac_arrest_date)

\* C7: validate_child of a DrugUseEvent fails exactly when last_use is unset
\* and last_use_unknown is false; one with both set is accepted.
C7_DrugUseRejectedIffNoTiming ==
    (last.op = "DrugUse.clean") =>
        (Failed <=> (IsNone(last.child.last_use) /\ ~last.child.last_use_unknown))

C7_Witness ==
    /\ last.op = "DrugUse.clean"
    /\ ~IsNone(last.child.last_use) /\ last.child.last_use_unknown
    /\ ~Failed

\* C8 as stated: validating a DrugUseEvent, accepted or rejected, leaves
\* Case.drug_use unchanged.
C8_AsStated ==
    (last.op = "DrugUse.clean") => case.drug_use = last.pre.drug_use

\* C8 amended: validating a DrugUseEvent that is rejected leaves Case.drug_use
\* unchanged; validating one that is accepted sets Case.drug_use to true; no
\* other Case field changes either way.
C8_DrugUseSetWhenAccepted ==
    (last.op = "DrugUse.clean") =>
        IF Failed
        THEN case = last.pre
        ELSE case = [last.pre EXCEPT !.drug_use = TRUE]

C8_Witness ==
    /\ last.op = "DrugUse.clean"
    /\ ~last.pre.drug_use /\ ~Failed /\ case.drug_use

\* C9: validating a PregnancyProblem, HeartDisease or MedicalProblem row that
\* has a type code never fails and sets exactly the corresponding Case flag
\* to true, leaving every other Case field unchanged.
C9_ChildSetsItsFlag ==
    /\ (last.op = "PregnancyProblem.clean" /\ ~IsNone(last.child.type)) =>
          ~Failed /\ case = [last.pre EXCEPT !.previous_pregnancy_problem = Yes]
    /\ (last.op = "HeartDisease.clean" /\ ~IsNone(last.child.type)) =>
          ~Failed /\ case = [last.pre EXCEPT !.heart_disease = TRUE]
    /\ (last.op = "MedicalProblem.clean" /\ ~IsNone(last.child.type)) =>
          ~Failed /\ case = [last.pre EXCEPT !.previous_medical_problem = TRUE]

C9_Witness ==
    /\ last.op = "HeartDisease.clean" /\ ~IsNone(last.child.type)
    /\ ~last.pre.heart_disease /\ case.heart_disease
    /\ ~last.pre.previous_medical_problem /\ ~case.previous_medical_problem
    /\ last.pre.previous_pregnancy_problem = PyNone
    /\ case.previous_pregnancy_problem = PyNone

-----------------------------------------------------------------------------
(* The label a choice list pairs with a code: the (code, label) pairs of   *)
(* the list, those inside a named group included.                          *)

\* the (code, label) pairs of row i
RowPairs(choices, i) ==
    IF choices[i][2].tag = "tuple" THEN choices[i][2].val ELSE <<choices[i]>>

Listed(choices, code) ==
    \E i \in 1..Len(choices) : \E j \in 1..Len(RowPairs(choices, i)) :
        PyEq(RowPairs(choices, i)[j][1], code)

LabelOf(choices, code) ==
    LET i == CHOOSE i \in 1..Len(choices) :
                \E j \in 1..Len(RowPairs(choices, i)) :
                    PyEq(RowPairs(choices, i)[j][1], code)
        j == CHOOSE j \in 1..Len(RowPairs(choices, i)) :
                PyEq(RowPairs(choices, i)[j][1], code)
    IN  RowPairs(choices, i)[j][2].val

\* the lookup returned the label paired with the code, '' for an unlisted code
ReturnsLabel(choices, code) ==
    /\ ~Failed
    /\ last.ret.tag = "str"
    /\ last.ret.val = IF Listed(choices, code) THEN LabelOf(choices, code) ELSE ""

\* C10: each label lookup returns, for every code of its choice list, the
\* label paired with that code, and the empty string for a code that is not
\* in the list; it never raises.
C10_LookupReturnsLabel ==
    /\ (last.op = "CapsForm.ethnic_group_string") =>
          ReturnsLabel(ETHNIC_ORIGIN_CHOICES, last.pre.ethnic_group)
    /\ (last.op = "CapsForm.marital_status_string") =>
          ReturnsLabel(MARTIAL_STATUS_CHOICES, last.pre.marital_status)
    /\ (last.op = "CapsForm.smoking_string") =>
          ReturnsLabel(SMOKING_CHOICES, last.pre.smoking)
    /\ (last.op = "PregnancyProblem.type_string") =>
          ReturnsLabel(PregnancyProblem_TYPE_CHOICES, last.child.type)
    /\ (last.op = "HeartDisease.type_string") =>
          ReturnsLabel(HeartDisease_TYPE_CHOICES, last.child.type)
    /\ (last.op = "MedicalProblem.type_string") =>
          ReturnsLabel(MedicalProblem_TYPE_CHOICES, last.child.type)

-----------------------------------------------------------------------------
\* C11: every DrugUseEvent that passes validate_child has exactly one of
\* "last_use is set" and "last_use_unknown is true": no accepted event has
\* both unset, and none has both set.
C11_ExactlyOneTimingAnswer ==
    (last.op = "DrugUse.clean" /\ ~Failed) =>
        (~IsNone(last.child.last_use)) # last.child.last_use_unknown

\* C12: for every Case the data model admits, an absent (None) occupation
\* included, validate_case ends in success or in a ValidationError with a
\* section-tagged message, never in another kind of fault.
C12_OnlyValidationErrors ==
    CaseCleaned =>
        (~Failed \/ Reports(Section1Errors \cup Section2Errors \cup Section3Errors))

-----------------------------------------------------------------------------
(* The rules of the three sections, on the Case as it is before the call   *)
(* and the number of its PregnancyProblem rows.                            *)

\* Section 1: occupation is required when employed
ViolatesSection1(c) == ~EmploymentCheckPasses(c)

\* Section 2: rows need a pregnancy; a "yes" needs a row; with a pregnancy the
\* question must be answered (rows answer it, by the auto-correction)
ViolatesSection2(c, count) ==
    \/ count > 0 /\ NoPregnancies(c)
    \/ count = 0 /\ c.previous_pregnancy_problem = Yes
    \/ count = 0 /\ ~NoPregnancies(c)
         /\ c.previous_pregnancy_problem \in {PyNone, PyStr("")}

\* Section 3: a cardiac arrest needs its date
ViolatesSection3(c) == c.cardiac_arrest /\ IsNone(c.cardiac_arrest_date)

\* C13: validate_case reports the first violated constraint in the order
\* Section 1, Section 2, Section 3: a Case violating the Section 1 rule and a
\* Section 2 or Section 3 rule reports the Section 1 error, and one violating
\* a Section 2 rule and the Section 3 rule reports the Section 2 error.
\* (Stated on the Cases whose occupation is a text, where clean() ends
\* without a TypeError.)
C13_FirstViolatedSectionReported ==
    (CaseCleaned /\ ~IsNone(last.pre.occupation)) =>
        /\ (ViolatesSection1(last.pre)
              /\ (ViolatesSection2(last.pre, previous_pregnancy_history)
                    \/ ViolatesSection3(last.pre)))
           => Reports(Section1Errors)
        /\ (~ViolatesSection1(last.pre)
              /\ ViolatesSection2(last.pre, previous_pregnancy_history)
              /\ ViolatesSection3(last.pre))
           => Reports(Section2Errors)

\* C13, apart from the unanswered question: on the Cases whose
\* previous_pregnancy_problem is not None and whose occupation is not None,
\* the error reported is that of the first section whose rule is violated,
\* and there is no error when no rule is.
C13_OrderWhereAnswered ==
    (CaseCleaned /\ ~IsNone(last.pre.occupation)
        /\ ~IsNone(last.pre.previous_pregnancy_problem)) =>
        IF ViolatesSection1(last.pre) THEN Reports(Section1Errors)
        ELSE IF ViolatesSection2(last.pre, previous_pregnancy_history)
        THEN Reports(Section2Errors)
        ELSE IF ViolatesSection3(last.pre) THEN Reports(Section3Errors)
        ELSE ~Failed

-----------------------------------------------------------------------------
\* C14 as stated: whenever validate_case fails, every Case field has the
\* value it had before the call: no auto-correction is applied to a
\* rejected Case.
C14_AsStated ==
    (CaseCleaned /\ Failed) => case = last.pre

\* C14 amended: whenever validate_case fails, every Case field other than
\* previous_pregnancy_problem has the value it had before the call (so
\* cardiac_arrest is never auto-corrected on a rejected Case);
\* previous_pregnancy_problem has been set to true when the Case has at least
\* one PregnancyProblem row and the employment check passed, and is left as it
\* was otherwise.
C14_RejectedCaseKeepsAllButPregnancyFlag ==
    (CaseCleaned /\ Failed) =>
        case = [last.pre EXCEPT !.previous_pregnancy_problem =
                   IF previous_pregnancy_history > 0 /\ EmploymentCheckPasses(last.pre)
                   THEN Yes
                   ELSE last.pre.previous_pregnancy_problem]

\* rejected for the missing date, with the pregnancy flag corrected on the way
C14_Witness ==
    /\ CaseCleaned /\ Reports(Section3Errors)
    /\ previous_pregnancy_history > 0
    /\ last.pre.previous_pregnancy_problem = PyBool(FALSE)
    /\ case.previous_pregnancy_problem = Yes
    /\ case.cardiac_arrest = last.pre.cardiac_arrest

-----------------------------------------------------------------------------
ValidationOps ==
    {"CapsForm.clean", "DrugUse.clean", "PregnancyProblem.clean",
     "HeartDisease.clean", "MedicalProblem.clean"}

\* the flag is as it was, or has become true
KeptOrSet(before, after, yes) == after = before \/ after = yes

\* one call of a clean() method
ValidationStep == last'.op \in ValidationOps /\ last'.pre = case

\* C15: in every validation step (validate_case or a validate_child) each of
\* the flags previous_pregnancy_problem, heart_disease, cardiac_arrest,
\* drug_use and previous_medical_problem is left as it was or set to true, so
\* a flag that is true stays true; no other Case field changes, and neither
\* does the set of child records.
C15_FlagsOnlyEverSet ==
    [][ValidationStep =>
        /\ KeptOrSet(case.previous_pregnancy_problem, case'.previous_pregnancy_problem, Yes)
        /\ KeptOrSet(case.heart_disease, case'.heart_disease, TRUE)
        /\ KeptOrSet(case.cardiac_arrest, case'.cardiac_arrest, TRUE)
        /\ KeptOrSet(case.drug_use, case'.drug_use, TRUE)
        /\ KeptOrSet(case.previous_medical_problem, case'.previous_medical_problem, TRUE)
        /\ case' = [case EXCEPT
                      !.previous_pregnancy_problem = case'.previous_pregnancy_problem,
                      !.heart_disease = case'.heart_disease,
                      !.cardiac_arrest = case'.cardiac_arrest,
                      !.drug_use = case'.drug_use,
                      !.previous_medical_problem = case'.previous_medical_problem]
        /\ previous_pregnancy_history' = previous_pregnancy_history
      ]_vars

\* a validation that set one flag and left the flags already true as they were
C15_Witness ==
    /\ CaseCleaned
    /\ ~last.pre.cardiac_arrest /\ case.cardiac_arrest
    /\ last.pre.previous_pregnancy_problem = Yes /\ case.previous_pregnancy_problem = Yes
    /\ last.pre.heart_disease /\ case.heart_disease
    /\ last.pre.drug_use /\ case.drug_use
    /\ previous_pregnancy_history > 0

====
